---------------------------- MODULE Spec2Model ----------------------------
(***************************************************************************)
(* Kerala local body election dashboard (Streamlit pages over one CSV).    *)
(*                                                                         *)
(* The state is the CSV file as read_csv finds it (source: whether it      *)
(* parses, and its columns), the dataset held by st.cache_data (data), the *)
(* table object most recently handed out by load_data() as the page script *)
(* left it (df) and the tables the last page run produced (view).  One     *)
(* action per page script; a script is rerun from the top on every         *)
(* selection.  An uncaught exception ends the script: the tables computed  *)
(* before it stay, the ones after it are not rendered.                     *)
(*                                                                         *)
(* pandas conventions used throughout (pandas 2.x defaults):               *)
(*   - groupby / pivot_table drop rows whose key is NaN and sort the keys; *)
(*   - pivot_table over a Categorical column shows every category          *)
(*     (observed=False) and, on an empty frame, returns an empty frame;    *)
(*   - .loc[list] raises KeyError when a label is missing;                 *)
(*   - Series division yields NaN for 0/0 and inf for x/0.                 *)
(* Rank column labels (Python ints) are written "1", "2", ...; percentages *)
(* rounded to two decimals are integers in hundredths of a percent.        *)
(***************************************************************************)
EXTENDS Integers, Sequences, FiniteSets, TLC

VARIABLES data, df, view, source

vars == <<data, df, view, source>>

-----------------------------------------------------------------------------
(* Bounds of the explored inputs *)

MaxRows == 3

-----------------------------------------------------------------------------
(* Values *)

NaN == "NaN"

NaNVotes == -1

(* what st.selectbox returns when it has no options *)
None == "None"

Range(s) == {s[i] : i \in DOMAIN s}

RECURSIVE SeqSum(_)
SeqSum(s) == IF s = <<>> THEN 0 ELSE Head(s) + SeqSum(Tail(s))

(* Python's str ordering (code points) on the labels that occur. *)
Alphabetical ==
    << "25 - 35", "35 - 50", "50 - 60", "60+", "< 25",
       "BJP", "Block", "CMP", "CPM", "Contested", "Corporation", "District",
       "F", "Female", "Grama", "INC", "IND", "INL", "IUML", "KOLLAM", "LBA",
       "LBB", "LDF", "M", "MALAPPURAM", "Male", "Municipality", "NDA", "NSC",
       "OTH", "Over 40", "PDP", "SDPI", "Taluk", "Total", "UDF", "Under 40",
       "WPI", "XP", "XYZ" >>

sorted(S) == SelectSeq(Alphabetical, LAMBDA x : x \in S)

RankLabel(r) == <<"1", "2", "3", "4", "5">>[r]

RankLabels == [r \in 1..5 |-> RankLabel(r)]

(* the labelling with the ranks below the runner-up left without label *)
RankLabelledTopTwo(t) ==
    [i \in DOMAIN t |-> [t[i] EXCEPT !.Rank = IF @ <= 2 THEN RankLabel(@) ELSE NaN]]

(* the table with its Rank values written as the column labels they become *)
RankLabelled(t) == [i \in DOMAIN t |-> [t[i] EXCEPT !.Rank = RankLabel(@)]]

(* pd.Categorical(values, categories): a value outside the categories is NaN *)
Categorical(v, categories) == IF v \in Range(categories) THEN v ELSE NaN

(* Position of a label in a category list; NaN (0 here) sorts last. *)
CatIndex(v, categories) ==
    IF v \in Range(categories)
    THEN CHOOSE i \in DOMAIN categories : categories[i] = v
    ELSE Len(categories) + 1

(* Ratios: a number (hundredths of a percent), NaN or inf. *)
Num(v) == [k |-> "num", v |-> v]

NaNRatio == [k |-> "nan", v |-> 0]

InfRatio == [k |-> "inf", v |-> 0]

RoundHalfEven(n, d) ==
    LET q == n \div d
        r == n % d
    IN  IF 2 * r < d THEN q
        ELSE IF 2 * r > d THEN q + 1
        ELSE IF q % 2 = 0 THEN q ELSE q + 1

(* (numerator / denominator * 100).round(2) on pandas Series / numpy floats *)
DivPct(n, d) ==
    IF d = 0 THEN (IF n = 0 THEN NaNRatio ELSE InfRatio)
    ELSE Num(RoundHalfEven(n * 10000, d))

(* round((n / d * 100) if d > 0 else 0, 2) *)
GuardedPct(n, d) == IF d > 0 THEN Num(RoundHalfEven(n * 10000, d)) ELSE Num(0)

(* Tables: ordered column labels and ordered rows (label + cells). *)
Tbl(columns, rows) == [rendered |-> TRUE, columns |-> columns, rows |-> rows]

NotRendered == [rendered |-> FALSE, columns |-> <<>>, rows |-> <<>>]

Row(label, cell) == [label |-> label, cell |-> cell]

Labels(tbl) == [i \in DOMAIN tbl.rows |-> tbl.rows[i].label]

RowOf(tbl, label) ==
    tbl.rows[CHOOSE i \in DOMAIN tbl.rows : tbl.rows[i].label = label]

-----------------------------------------------------------------------------
(* The source file *)

(* the columns of Data/lsgd_data.csv that the pages read *)
AllColumns ==
    {"District", "LBName", "LBType", "Tier", "WardCode", "WardName", "Candidate",
     "Party", "Front", "Rank", "Votes", "Lead", "Age", "Gender"}

(* a file that parses and has every column *)
WellFormed == [kind |-> "table", columns |-> AllColumns]

(* what pd.read_csv raises on a file that is empty or has ragged lines *)
ReadCsvError(kind) ==
    CASE kind = "empty" -> "EmptyDataError"
      [] kind = "ragged" -> "ParserError"
      [] OTHER -> ""

(* The outcome of a script that reads the columns `reads` (column and     *)
(* line, in the order of the script): read_csv raises inside load_data(), *)
(* or df[column] raises KeyError at the first read of a column the table  *)
(* lacks, or nothing is raised.                                           *)
ScriptOutcome(page, load_line, reads) ==
    LET missing == SelectSeq(reads, LAMBDA c : c[1] \notin source.columns)
    IN  IF source.kind # "table"
        THEN [page |-> page, error |-> ReadCsvError(source.kind),
              loaded |-> FALSE, line |-> load_line]
        ELSE IF missing # <<>>
        THEN [page |-> page, error |-> "KeyError",
              loaded |-> TRUE, line |-> missing[1][2]]
        ELSE [page |-> page, error |-> "", loaded |-> TRUE, line |-> 0]

-----------------------------------------------------------------------------
(* pandas operations shared by the pages *)

(* pd.pivot_table(t, index=index, columns=columns, values="Candidate",       *)
(* aggfunc="count", fill_value=0[, margins=True, margins_name=margins_name]). *)
(* colOrder lists the column labels in their sort order; allCats says the    *)
(* column key is Categorical, so every category is a column.                 *)
PivotTable(t, index, columns, colOrder, allCats, margins_name) ==
    LET keyed == SelectSeq(t, LAMBDA r : r[index] # NaN /\ r[columns] # NaN)
        idx == sorted({keyed[i][index] : i \in DOMAIN keyed})
        observedCols == {keyed[i][columns] : i \in DOMAIN keyed}
        cols == SelectSeq(colOrder, LAMBDA c : allCats \/ c \in observedCols)
        valid == SelectSeq(keyed, LAMBDA r : r.Candidate # NaN)
        n(i, c) == Len(SelectSeq(valid, LAMBDA r : r[index] = i /\ r[columns] = c))
        rowMargin(i) == Len(SelectSeq(valid, LAMBDA r : r[index] = i))
        colMargin(c) == Len(SelectSeq(valid, LAMBDA r : r[columns] = c))
        withM == margins_name # ""
        allcols == IF withM THEN Append(cols, margins_name) ELSE cols
        dataRows ==
            [k \in DOMAIN idx |->
                Row(idx[k], [c \in Range(allcols) |->
                                IF c = margins_name THEN rowMargin(idx[k])
                                ELSE n(idx[k], c)])]
        marginRow ==
            Row(margins_name, [c \in Range(allcols) |->
                                  IF c = margins_name THEN Len(valid)
                                  ELSE colMargin(c)])
    IN  IF keyed = <<>> THEN Tbl(<<>>, <<>>)
        ELSE Tbl(allcols, IF withM THEN Append(dataRows, marginRow) ELSE dataRows)

(* table[columns]: the same rows, restricted to the given columns in order *)
SelectColumns(tbl, columns) ==
    Tbl(columns,
        [k \in DOMAIN tbl.rows |->
            Row(tbl.rows[k].label, [c \in Range(columns) |-> tbl.rows[k].cell[c]])])

(* sorted(df[col].dropna().unique()) *)
UniqueSorted(t, col) == sorted({t[i][col] : i \in DOMAIN t} \ {NaN})

(* df[col].sum(): NaN votes are skipped *)
SumVotes(t) ==
    SeqSum([i \in DOMAIN t |-> IF t[i].Votes = NaNVotes THEN 0 ELSE t[i].Votes])

-----------------------------------------------------------------------------
(* Pages/District.py *)

lbtype_order == <<"Grama", "Municipality", "Corporation", "Block", "District">>

front_priority == <<"UDF", "LDF", "NDA", "OTH">>

(* line 17: df["LBType"] = pd.Categorical(df["LBType"], categories=lbtype_order) *)
(* assigned on the table load_data() returned                                    *)
SetLBTypeCategorical(t) ==
    [i \in DOMAIN t |-> [t[i] EXCEPT !.LBType = Categorical(@, lbtype_order)]]

(* lines 24-57: Front x LBType seats of the district; error: KeyError at .loc *)
DistrictPivot(t, selected_district) ==
    LET df_district ==
            SelectSeq(t, LAMBDA r : r.District = selected_district /\ r.Rank = 1)
        pivot_table ==
            PivotTable(df_district, "Front", "LBType",
                       lbtype_order, TRUE, "Total")
        ordered_columns ==
            SelectSeq(lbtype_order, LAMBDA c : c \in Range(pivot_table.columns))
            \o (IF "Total" \in Range(pivot_table.columns) THEN <<"Total">> ELSE <<>>)
        all_fronts == Range(Labels(pivot_table))
        other_fronts == all_fronts \ (Range(front_priority) \cup {"Total"})
        ordered_fronts ==
            front_priority \o sorted(other_fronts)
            \o (IF "Total" \in all_fronts THEN <<"Total">> ELSE <<>>)
        reordered == SelectColumns(pivot_table, ordered_columns)
    IN  IF Range(ordered_fronts) \subseteq all_fronts
        THEN [error |-> FALSE,
              tbl |-> Tbl(ordered_columns,
                          [k \in DOMAIN ordered_fronts |->
                              RowOf(reordered, ordered_fronts[k])])]
        ELSE [error |-> TRUE, tbl |-> NotRendered]

(* line 116: (summary["Won"] / summary["Contested"] * 100).round(2) *)
HitRate(won, contested) == DivPct(won, contested)

(* The Total row's rate as line 119 alone leaves it: the column sum of the *)
(* per-party rates                                                         *)
TotalHitRateSummed(won_total, contested_total, rate_sum) == Num(rate_sum)

(* lines 120-122: the Total row's rate, from the summed Won and Contested *)
TotalHitRate(won_total, contested_total, rate_sum) ==
    DivPct(won_total, contested_total)

(* lines 119, 145: rows stay in the index order of the concat (parties as  *)
(* groupby sorted them) with "Total" appended; ordered_index (lines        *)
(* 136-142) is computed but never applied to the table                     *)
SummaryIndex(parties) == Append(parties, "Total")

(* lines 89-129: UDF party x rank table of the district; error: KeyError "Won" *)
DistrictSummary(t, selected_district) ==
    LET df_udf ==
            SelectSeq(t, LAMBDA r : /\ r.Front = "UDF"
                                    /\ r.Tier = "Ward"
                                    /\ r.District = selected_district)
        contested(p) == Len(SelectSeq(df_udf, LAMBDA r : r.Party = p))
        rank_counts ==
            PivotTable(RankLabelled(df_udf), "Party", "Rank",
                       RankLabels, FALSE, "")
        renamed(c) == IF c = "1" THEN "Won" ELSE c
        columns == [k \in DOMAIN rank_counts.columns |-> renamed(rank_counts.columns[k])]
        parties == UniqueSorted(df_udf, "Party")
        count(p, c) ==
            IF p \in Range(Labels(rank_counts))
            THEN RowOf(rank_counts, p).cell[IF c = "Won" THEN "1" ELSE c]
            ELSE 0
        int_cols == SelectSeq(columns, LAMBDA c : c # "Won")
        cols_sorted == <<"Won">> \o int_cols \o <<"Contested", "Hit Rate (%)">>
        partyCell(p) ==
            [c \in Range(cols_sorted) |->
                IF c = "Contested" THEN contested(p)
                ELSE IF c = "Hit Rate (%)" THEN HitRate(count(p, "Won"), contested(p))
                ELSE count(p, c)]
        total(c) ==
            SeqSum([k \in DOMAIN parties |->
                       IF c = "Contested" THEN contested(parties[k])
                       ELSE count(parties[k], c)])
        rate_sum == SeqSum([k \in DOMAIN parties |-> partyCell(parties[k])["Hit Rate (%)"].v])
        totalCell ==
            [c \in Range(cols_sorted) |->
                IF c = "Hit Rate (%)"
                THEN TotalHitRate(total("Won"), total("Contested"), rate_sum)
                ELSE total(c)]
        index == SummaryIndex(parties)
    IN  IF "Won" \in Range(columns)
        THEN [error |-> FALSE,
              tbl |-> Tbl(cols_sorted,
                          [k \in DOMAIN index |->
                              IF index[k] = "Total" THEN Row("Total", totalCell)
                              ELSE Row(index[k], partyCell(index[k]))])]
        ELSE [error |-> TRUE, tbl |-> NotRendered]

(* lines 239-263: seats won by front in each local body (Ward tier winners); *)
(* a major front without a column gets a column of zeros (lines 254-256)     *)
DistrictLbSummary(t, selected_district) ==
    LET df_lb_fronts ==
            SelectSeq(t, LAMBDA r : /\ r.District = selected_district
                                    /\ r.Tier = "Ward"
                                    /\ r.Rank = 1
                                    /\ r.LBName # NaN
                                    /\ r.Front # NaN)
        names == UniqueSorted(df_lb_fronts, "LBName")
        seats(lb, f) == Len(SelectSeq(df_lb_fronts, LAMBDA r : r.LBName = lb /\ r.Front = f))
    IN  Tbl(front_priority,
            [k \in DOMAIN names |->
                Row(names[k], [f \in Range(front_priority) |-> seats(names[k], f)])])

(* The tables one run of the District page leaves, for a table t as line 17  *)
(* left it and the district picked in the selectbox.                         *)
DistrictView(t, selected_district) ==
    LET pivot == DistrictPivot(t, selected_district)
        summary == DistrictSummary(t, selected_district)
        base == [page |-> "District", selected_district |-> selected_district,
                 selected_party |-> NaN, selected_lb |-> NaN]
    IN  IF pivot.error
        THEN base @@ [error |-> "KeyError:57", pivot_table |-> NotRendered,
                      summary |-> NotRendered, lb_summary |-> NotRendered]
        ELSE IF summary.error
        THEN base @@ [error |-> "KeyError:116", pivot_table |-> pivot.tbl,
                      summary |-> NotRendered, lb_summary |-> NotRendered]
        ELSE base @@ [error |-> "", pivot_table |-> pivot.tbl,
                      summary |-> summary.tbl,
                      lb_summary |-> DistrictLbSummary(t, selected_district)]

(* Pages/District.py, top to bottom.  Line 21 looks "MALAPPURAM" up in the   *)
(* district list (ValueError when absent).                                   *)
RunDistrict ==
    LET loaded == SetLBTypeCategorical(data)
        districts == UniqueSorted(loaded, "District")
    IN  /\ df' = loaded
        /\ source = WellFormed
        /\ UNCHANGED <<data, source>>
        /\ IF "MALAPPURAM" \in Range(districts)
           THEN \E selected_district \in Range(districts) :
                    view' = DistrictView(loaded, selected_district)
           ELSE view' = [page |-> "District", selected_district |-> NaN,
                         selected_party |-> NaN, selected_lb |-> NaN,
                         error |-> "ValueError:21", pivot_table |-> NotRendered,
                         summary |-> NotRendered, lb_summary |-> NotRendered]

(* Pages/District.py over a file that does not parse or lacks a column *)
RunDistrictFaulty ==
    /\ source # WellFormed
    /\ view' = ScriptOutcome("District", 10,
                             << <<"LBType", 17>>, <<"District", 20>>, <<"Rank", 24>>,
                                <<"Candidate", 27>>, <<"Front", 27>>, <<"Tier", 91>>,
                                <<"Party", 96>> >>)
    /\ df' = IF source.kind = "table" /\ "LBType" \in source.columns
             THEN SetLBTypeCategorical(data) ELSE data
    /\ UNCHANGED <<data, source>>

-----------------------------------------------------------------------------
(* Pages/Party.py *)

compare_parties == <<"IUML", "SDPI", "WPI", "NSC", "INL", "PDP">>

(* sort_values(col, ascending=False) / sort_values(col): equal keys keep    *)
(* their order (the frames here are far below numpy's insertion-sort size)  *)
Unsorted(s, keys) == s

SortDescBy(s, keys) ==
    LET pos(i) == Cardinality({j \in DOMAIN s :
                                  \/ keys[j] > keys[i]
                                  \/ keys[j] = keys[i] /\ j < i}) + 1
    IN  [p \in DOMAIN s |-> s[CHOOSE i \in DOMAIN s : pos(i) = p]]

SortAscBy(s, keys) ==
    LET pos(i) == Cardinality({j \in DOMAIN s :
                                  \/ keys[j] < keys[i]
                                  \/ keys[j] = keys[i] /\ j < i}) + 1
    IN  [p \in DOMAIN s |-> s[CHOOSE i \in DOMAIN s : pos(i) = p]]

(* lines 36-38 and 53-55: vote share and strike rate of the selected party *)
vote_percent(party_votes, total_votes_all) == GuardedPct(party_votes, total_votes_all)

strike_rate(seats_won, seats_contested) == GuardedPct(seats_won, seats_contested)

(* line 105: pivot["Strike Rate (%)"] = (Won / Contested * 100).round(2),    *)
(* for the LBType rows and for the "Contested" margin row alike              *)
PivotStrikeRate(won, contested) == DivPct(won, contested)

(* lines 81-109: LBType x Rank counts of the party, margins named "Contested" *)
PartyPivot(df_party) ==
    LET pivot ==
            PivotTable(RankLabelled(df_party), "LBType", "Rank",
                       RankLabels, FALSE, "Contested")
        hasWon == "1" \in Range(pivot.columns)
        hasContested == "Contested" \in Range(pivot.columns)
        rank_cols == SelectSeq(pivot.columns, LAMBDA c : c \notin {"1", "Contested"})
        column_order ==
            (IF hasWon THEN <<"Won">> ELSE <<>>) \o rank_cols
            \o (IF hasContested THEN <<"Contested">> ELSE <<>>)
        src(c) == IF c = "Won" THEN "1" ELSE c
        cellOf(row) ==
            [c \in Range(column_order) \cup {"Strike Rate (%)"} |->
                IF c = "Strike Rate (%)"
                THEN (IF hasWon /\ hasContested
                      THEN PivotStrikeRate(row.cell["1"], row.cell["Contested"])
                      ELSE Num(0))
                ELSE row.cell[src(c)]]
    IN  Tbl(Append(column_order, "Strike Rate (%)"),
            [k \in DOMAIN pivot.rows |-> Row(pivot.rows[k].label, cellOf(pivot.rows[k]))])

(* lines 113-152: IUML and allied parties, one row per listed party, sorted *)
(* by "Votes Secured" descending                                             *)
CompareTable(t, selected_district) ==
    LET ward == SelectSeq(t, LAMBDA r : r.Tier = "Ward")
        df_tier_ward ==
            IF selected_district # "Kerala"
            THEN SelectSeq(ward, LAMBDA r : r.District = selected_district)
            ELSE ward
        total_votes_all == SumVotes(df_tier_ward)
        rowOf(party) ==
            LET party_df == SelectSeq(df_tier_ward, LAMBDA r : r.Party = party)
                contested == Len(party_df)
                won == Len(SelectSeq(party_df, LAMBDA r : r.Rank = 1))
                votes == SumVotes(party_df)
            IN  Row(party,
                    [c \in {"Won", "Contested", "Strike Rate (%)", "Votes Secured",
                            "Vote Share (%)"} |->
                        CASE c = "Won" -> won
                          [] c = "Contested" -> contested
                          [] c = "Strike Rate (%)" -> strike_rate(won, contested)
                          [] c = "Votes Secured" -> votes
                          [] OTHER -> vote_percent(votes, total_votes_all)])
        summary_rows == [k \in DOMAIN compare_parties |-> rowOf(compare_parties[k])]
    IN  Tbl(<<"Won", "Contested", "Strike Rate (%)", "Votes Secured", "Vote Share (%)">>,
            SortDescBy(summary_rows,
                       [k \in DOMAIN summary_rows |-> summary_rows[k].cell["Votes Secured"]]))

(* The tables one run of the Party page leaves for a selection. *)
PartyView(t, selected_party, selected_district) ==
    LET df_ward == SelectSeq(t, LAMBDA r : r.Tier = "Ward")
        df_filtered ==
            IF selected_district = "Kerala" THEN df_ward
            ELSE SelectSeq(df_ward, LAMBDA r : r.District = selected_district)
        df_party == SelectSeq(df_filtered, LAMBDA r : r.Party = selected_party)
        seats_contested == Len(df_party)
        seats_won == Len(SelectSeq(df_party, LAMBDA r : r.Rank = 1))
    IN  [page |-> "Party", selected_district |-> selected_district,
         selected_party |-> selected_party, selected_lb |-> NaN, error |-> "",
         total_votes |-> SumVotes(df_party),
         total_votes_all |-> SumVotes(df_filtered),
         vote_share |-> vote_percent(SumVotes(df_party), SumVotes(df_filtered)),
         seats_contested |-> seats_contested,
         seats_won |-> seats_won,
         strike_rate |-> strike_rate(seats_won, seats_contested),
         pivot |-> PartyPivot(df_party),
         compare_df |-> IF selected_party = "IUML"
                        THEN CompareTable(t, selected_district)
                        ELSE NotRendered]

(* Pages/Party.py, top to bottom: the party is picked among the parties of  *)
(* the Ward-tier rows (None when there is none), the district among         *)
(* "Kerala" and the districts of the Ward-tier rows.                        *)
RunParty ==
    LET df_ward == SelectSeq(data, LAMBDA r : r.Tier = "Ward")
        parties == UniqueSorted(df_ward, "Party")
        districts == <<"Kerala">> \o UniqueSorted(df_ward, "District")
    IN  /\ df' = data
        /\ source = WellFormed
        /\ UNCHANGED <<data, source>>
        /\ \E selected_party \in (IF parties = <<>> THEN {None} ELSE Range(parties)),
              selected_district \in Range(districts) :
               view' = PartyView(data, selected_party, selected_district)

-----------------------------------------------------------------------------
(* Overall.py *)

front_order == <<"UDF", "LDF", "NDA", "OTH", "Total">>

(* lines 53-55: the Front labels made Categorical over front_order (a label *)
(* outside it becomes NaN) and the rows sorted by it, NaN last              *)
OrderFrontRows(rows) ==
    LET front_pivot == [k \in DOMAIN rows |->
                           Row(Categorical(rows[k].label, front_order), rows[k].cell)]
    IN  SortAscBy(front_pivot,
                  [k \in DOMAIN rows |-> CatIndex(front_pivot[k].label, front_order)])

(* lines 28-55: Front x LBType seats over all winners, with "Total" margins *)
FrontPivot(t) ==
    LET winners == SelectSeq(t, LAMBDA r : r.Rank = 1)
        df1 == SetLBTypeCategorical(winners)
        front_pivot ==
            PivotTable(df1, "Front", "LBType", lbtype_order, TRUE, "Total")
    IN  Tbl(front_pivot.columns, OrderFrontRows(front_pivot.rows))

(* lines 116, 133-139: (Votes / total * 100).round(2) *)
VoteShare(votes, total) == DivPct(votes, total)

(* the group sums left in the order of the group keys *)
SumByKeyOrder(t, col) ==
    LET groups == UniqueSorted(t, col)
    IN  [k \in DOMAIN groups |->
            [label |-> groups[k],
             Votes |-> SumVotes(SelectSeq(t, LAMBDA r : r[col] = groups[k]))]]

(* groupby(col).agg(Votes=("Votes", "sum")).sort_values("Votes", ascending=False) *)
SumBy(t, col) ==
    LET groups == UniqueSorted(t, col)
        rows == [k \in DOMAIN groups |->
                    [label |-> groups[k],
                     Votes |-> SumVotes(SelectSeq(t, LAMBDA r : r[col] = groups[k]))]]
    IN  SortDescBy(rows, [k \in DOMAIN rows |-> rows[k].Votes])

(* lines 102-118: votes and share by front *)
FrontVotes(df_votes) ==
    LET total_votes == SumVotes(df_votes)
        sums == SumBy(df_votes, "Front")
    IN  Tbl(<<"Votes", "% Share">>,
            [k \in DOMAIN sums |->
                Row(sums[k].label,
                    [c \in {"Votes", "% Share"} |->
                        IF c = "Votes" THEN sums[k].Votes
                        ELSE VoteShare(sums[k].Votes, total_votes)])])

(* lines 121-141: votes and shares by party within one front *)
PartyVotes(df_votes, front) ==
    LET total_votes == SumVotes(df_votes)
        df_front == SelectSeq(df_votes, LAMBDA r : r.Front = front)
        front_total == SumVotes(df_front)
        sums == SumBy(df_front, "Party")
    IN  Tbl(<<"Votes", "% Front Share", "% Total Share">>,
            [k \in DOMAIN sums |->
                Row(sums[k].label,
                    [c \in {"Votes", "% Front Share", "% Total Share"} |->
                        CASE c = "Votes" -> sums[k].Votes
                          [] c = "% Front Share" -> VoteShare(sums[k].Votes, front_total)
                          [] OTHER -> VoteShare(sums[k].Votes, total_votes)])])

(* Overall.py, top to bottom; the LBType column is set on a copy (line 29) *)
RunOverall ==
    LET df_votes ==
            SelectSeq(data, LAMBDA r : r.Tier = "Ward" /\ r.Votes # NaNVotes)
    IN  /\ df' = data
        /\ source = WellFormed
        /\ UNCHANGED <<data, source>>
        /\ view' = [page |-> "Overall", selected_district |-> NaN,
                    selected_party |-> NaN, selected_lb |-> NaN, error |-> "",
                    front_pivot |-> FrontPivot(data),
                    total_votes |-> SumVotes(df_votes),
                    front_votes |-> FrontVotes(df_votes),
                    party_votes |-> [f \in Range(front_priority) |->
                                        PartyVotes(df_votes, f)]]

(* Overall.py over a file that does not parse or lacks a column: the      *)
(* columns in the order the script reads them (District is never read)    *)
RunOverallFaulty ==
    /\ source # WellFormed
    /\ view' = ScriptOutcome("Overall", 25,
                             << <<"Rank", 29>>, <<"LBType", 38>>, <<"Candidate", 41>>,
                                <<"Front", 41>>, <<"Party", 81>>, <<"Tier", 103>>,
                                <<"Votes", 104>> >>)
    /\ df' = data
    /\ UNCHANGED <<data, source>>

-----------------------------------------------------------------------------
(* Pages/Local Body.py *)

(* lines 36-51: seats won by front in the local body, rows in front order *)
FrontSummary(df_filtered) ==
    LET fronts == UniqueSorted(df_filtered, "Front")
        counted == [k \in DOMAIN fronts |->
                       [label |-> fronts[k],
                        cell |-> [c \in {"Seats Won"} |->
                                     Len(SelectSeq(df_filtered, LAMBDA r : r.Front = fronts[k]))]]]
        front_summary == SortDescBy(counted, [k \in DOMAIN counted |-> counted[k].cell["Seats Won"]])
        others == {f \in Range(fronts) : f \notin Range(front_priority)}
        ordered_fronts == front_priority \o sorted(others)
    IN  Tbl(<<"Seats Won">>,
            SortAscBy(front_summary,
                      [k \in DOMAIN front_summary |->
                          CatIndex(front_summary[k].label, ordered_fronts)]))

(* lines 71-77 *)
party_specific_colors ==
    [q \in {"IUML", "INC", "CPM", "BJP", "IND"} |->
        CASE q = "IUML" -> "#2E8B57"
          [] q = "INC" -> "#1F77B4"
          [] q = "CPM" -> "#D62728"
          [] q = "BJP" -> "#FF7F0E"
          [] OTHER -> "#7F7F7F"]

(* lines 80-85 *)
front_palettes ==
    [f \in {"UDF", "LDF", "NDA", "OTH"} |->
        CASE f = "UDF" -> <<"#85C1E9", "#5DADE2", "#A9D0F5", "#0B5394">>
          [] f = "LDF" -> <<"#F08080", "#FF9896", "#A52A2A", "#8B0000">>
          [] f = "NDA" -> <<"#FFBB78", "#F7B731", "#FFA500", "#CC7722">>
          [] OTHER -> <<"#A0A0A0", "#5F5F5F", "#BFBFBF">>]

(* final_party_color_map[party] = color *)
SetColor(map, party, color) ==
    [q \in DOMAIN map \cup {party} |-> IF q = party THEN color ELSE map[q]]

(* df_winners[df_winners['Party'] == p]['Front'].iloc[0] *)
FirstFrontOf(df_winners, p) ==
    SelectSeq(df_winners, LAMBDA r : r.Party = p)[1].Front

(* the loop body with every mapped party of the front counted, the ones  *)
(* with a colour of their own included                                    *)
ColorStepCountAll(map, df_winners, row) ==
    IF row.Party \in DOMAIN party_specific_colors
    THEN SetColor(map, row.Party, party_specific_colors[row.Party])
    ELSE IF row.Party \in DOMAIN map THEN map
    ELSE IF row.Front \in DOMAIN front_palettes
    THEN LET palette == front_palettes[row.Front]
             assigned_count ==
                 Cardinality({q \in DOMAIN map :
                                 FirstFrontOf(df_winners, q) = row.Front})
         IN  SetColor(map, row.Party, palette[(assigned_count % Len(palette)) + 1])
    ELSE SetColor(map, row.Party, "#CCCCCC")

(* the loop body without the test that the party has no colour yet *)
ColorStepReassign(map, df_winners, row) ==
    IF row.Party \in DOMAIN party_specific_colors
    THEN SetColor(map, row.Party, party_specific_colors[row.Party])
    ELSE IF row.Front \in DOMAIN front_palettes
    THEN LET palette == front_palettes[row.Front]
             assigned_count ==
                 Cardinality({q \in DOMAIN map :
                                 /\ q \notin DOMAIN party_specific_colors
                                 /\ FirstFrontOf(df_winners, q) = row.Front})
         IN  SetColor(map, row.Party, palette[(assigned_count % Len(palette)) + 1])
    ELSE SetColor(map, row.Party, "#CCCCCC")

(* lines 89-101: the loop body for one winner row *)
ColorStep(map, df_winners, row) ==
    IF row.Party \in DOMAIN party_specific_colors
    THEN SetColor(map, row.Party, party_specific_colors[row.Party])
    ELSE IF row.Party \in DOMAIN map THEN map
    ELSE IF row.Front \in DOMAIN front_palettes
    THEN LET palette == front_palettes[row.Front]
             assigned_count ==
                 Cardinality({q \in DOMAIN map :
                                 /\ q \notin DOMAIN party_specific_colors
                                 /\ FirstFrontOf(df_winners, q) = row.Front})
         IN  SetColor(map, row.Party, palette[(assigned_count % Len(palette)) + 1])
    ELSE SetColor(map, row.Party, "#CCCCCC")

(* lines 88-101: the map after the loop has taken the first n winner rows *)
RECURSIVE ColorMapAfter(_, _)
ColorMapAfter(df_winners, n) ==
    IF n = 0 THEN <<>>
    ELSE ColorStep(ColorMapAfter(df_winners, n - 1), df_winners, df_winners[n])

(* lines 62-101 *)
final_party_color_map(df_winners) == ColorMapAfter(df_winners, Len(df_winners))

(* lines 164-191: UDF party x rank counts with a "Total" row; setting the  *)
(* row on a frame without columns raises ValueError (line 181)             *)
UdfPivot(df_udf) ==
    LET udf_pivot ==
            PivotTable(RankLabelled(df_udf), "Party", "Rank",
                       RankLabels, FALSE, "")
        total == Row("Total",
                     [c \in Range(udf_pivot.columns) |->
                         SeqSum([k \in DOMAIN udf_pivot.rows |->
                                    udf_pivot.rows[k].cell[c]])])
    IN  IF udf_pivot.columns = <<>>
        THEN [error |-> TRUE, tbl |-> NotRendered]
        ELSE [error |-> FALSE,
              tbl |-> Tbl(udf_pivot.columns, Append(udf_pivot.rows, total))]

(* The join as it would be on a key every row of the local body shares: *)
(* each winner row paired with every runner-up row                      *)
MergeCross(winners, trailers) ==
    [k \in 1..(Len(winners) * Len(trailers)) |->
        [win |-> winners[((k - 1) \div Len(trailers)) + 1],
         trail |-> trailers[((k - 1) % Len(trailers)) + 1]]]

(* lines 236-241: pd.merge(winners, trailers, on="WardCode"), an inner join: *)
(* each winner row paired with every runner-up row of the same WardCode      *)
RECURSIVE Merge(_, _)
Merge(winners, trailers) ==
    IF winners = <<>> THEN <<>>
    ELSE LET w == Head(winners)
             matches == SelectSeq(trailers, LAMBDA x : x.WardCode = w.WardCode)
         IN  [k \in DOMAIN matches |-> [win |-> w, trail |-> matches[k]]]
             \o Merge(Tail(winners), trailers)

(* lines 225-255: ward-wise winner / runner-up records, sorted by Sl. Code *)
WardResults(df_lb) ==
    LET winners == SelectSeq(df_lb, LAMBDA r : r.Rank = 1)
        trailers == SelectSeq(df_lb, LAMBDA r : r.Rank = 2)
        merged == Merge(winners, trailers)
        final_table ==
            [k \in DOMAIN merged |->
                [SlCode |-> merged[k].win.WardCode % 100,
                 WardName |-> merged[k].win.WardName,
                 Won |-> merged[k].win.Candidate,
                 WonParty |-> merged[k].win.Party,
                 Lead |-> merged[k].win.Lead,
                 Trail |-> <<merged[k].trail.Party, merged[k].trail.Candidate>>]]
    IN  SortAscBy(final_table, [k \in DOMAIN final_table |-> final_table[k].SlCode])

(* The tables one run of the Local Body page leaves for a selection. *)
LocalBodyView(t, selected_district, selected_lb) ==
    LET df_lb == SelectSeq(t, LAMBDA r : /\ r.District = selected_district
                                         /\ r.LBName = selected_lb)
        df_filtered == SelectSeq(df_lb, LAMBDA r : r.Rank = 1)
        udf == UdfPivot(SelectSeq(df_lb, LAMBDA r : r.Front = "UDF"))
        base == [page |-> "LocalBody", selected_district |-> selected_district,
                 selected_party |-> NaN, selected_lb |-> selected_lb,
                 front_summary |-> FrontSummary(df_filtered),
                 final_party_color_map |-> final_party_color_map(df_filtered)]
    IN  IF udf.error
        THEN base @@ [error |-> "ValueError:181", udf_pivot |-> NotRendered,
                      joined |-> FALSE, final_table |-> <<>>]
        ELSE base @@ [error |-> "", udf_pivot |-> udf.tbl,
                      joined |-> TRUE, final_table |-> WardResults(df_lb)]

(* Pages/Local Body.py, top to bottom, over the Ward-tier rows (line 18) *)
RunLocalBody ==
    LET ward == SelectSeq(data, LAMBDA r : r.Tier = "Ward")
        districts == UniqueSorted(ward, "District")
        lbnames(d) ==
            UniqueSorted(SelectSeq(ward, LAMBDA r : r.District = d), "LBName")
    IN  /\ df' = data
        /\ source = WellFormed
        /\ UNCHANGED <<data, source>>
        /\ \E selected_district \in
                  (IF districts = <<>> THEN {None} ELSE Range(districts)) :
              \E selected_lb \in
                    (IF lbnames(selected_district) = <<>> THEN {None}
                     ELSE Range(lbnames(selected_district))) :
                 view' = LocalBodyView(ward, selected_district, selected_lb)

(* Pages/Local Body.py from the top to line 87: a selection is made, the   *)
(* winner rows of the local body are taken (lines 62-66) and the colour    *)
(* map starts empty, no row of the loop of line 88 taken yet.              *)
StartColorLoop ==
    LET ward == SelectSeq(data, LAMBDA r : r.Tier = "Ward")
        districts == UniqueSorted(ward, "District")
        lbnames(d) ==
            UniqueSorted(SelectSeq(ward, LAMBDA r : r.District = d), "LBName")
    IN  /\ df' = data
        /\ source = WellFormed
        /\ UNCHANGED <<data, source>>
        /\ \E selected_district \in
                  (IF districts = <<>> THEN {None} ELSE Range(districts)) :
              \E selected_lb \in
                    (IF lbnames(selected_district) = <<>> THEN {None}
                     ELSE Range(lbnames(selected_district))) :
                 view' = [page |-> "LocalBodyLoop",
                          selected_district |-> selected_district,
                          selected_party |-> NaN, selected_lb |-> selected_lb,
                          df_winners |->
                              SelectSeq(ward, LAMBDA r : /\ r.District = selected_district
                                                         /\ r.LBName = selected_lb
                                                         /\ r.Rank = 1),
                          rows_done |-> 0,
                          final_party_color_map |-> <<>>]

(* lines 89-101: one iteration of the loop, on the next winner row *)
StepColorLoop ==
    /\ view.page = "LocalBodyLoop"
    /\ view.rows_done < Len(view.df_winners)
    /\ view' = [view EXCEPT
                   !.rows_done = @ + 1,
                   !.final_party_color_map =
                       ColorStep(@, view.df_winners, view.df_winners[view.rows_done + 1])]
    /\ UNCHANGED <<data, df, source>>

-----------------------------------------------------------------------------
(* pages/Other.py: age and gender tables of one party.  The age bucket     *)
(* labels are written with "-" for the en dash of the source.              *)

(* a missing Age (NaN): every comparison with it is False *)
NaNAge == -1

(* df[col] = values *)
Assign(t, col, values) ==
    [i \in DOMAIN t |->
        [f \in DOMAIN t[i] \cup {col} |-> IF f = col THEN values[i] ELSE t[i][f]]]

(* the split with the boundary age on the lower side *)
AgeGroup40Inclusive(x) == IF x # NaNAge /\ x <= 40 THEN "Under 40" ELSE "Over 40"

(* line 38: "Under 40" if x < 40 else "Over 40" *)
AgeGroup40(x) == IF x # NaNAge /\ x < 40 THEN "Under 40" ELSE "Over 40"

(* the buckets with a missing age left without bucket *)
categorize_age_known(age) ==
    IF age = NaNAge THEN NaN
    ELSE IF age < 25 THEN "< 25"
    ELSE IF age < 35 THEN "25 - 35"
    ELSE IF age < 50 THEN "35 - 50"
    ELSE IF age < 60 THEN "50 - 60"
    ELSE "60+"

(* the buckets with their upper bounds included *)
categorize_age_closed(age) ==
    IF age # NaNAge /\ age <= 25 THEN "< 25"
    ELSE IF age # NaNAge /\ age <= 35 THEN "25 - 35"
    ELSE IF age # NaNAge /\ age <= 50 THEN "35 - 50"
    ELSE IF age # NaNAge /\ age <= 60 THEN "50 - 60"
    ELSE "60+"

(* lines 80-90 *)
categorize_age(age) ==
    IF age # NaNAge /\ age < 25 THEN "< 25"
    ELSE IF age # NaNAge /\ 25 <= age /\ age < 35 THEN "25 - 35"
    ELSE IF age # NaNAge /\ 35 <= age /\ age < 50 THEN "35 - 50"
    ELSE IF age # NaNAge /\ 50 <= age /\ age < 60 THEN "50 - 60"
    ELSE "60+"

(* line 101 *)
age_order == <<"< 25", "25 - 35", "35 - 50", "50 - 60", "60+">>

(* groupby(col).agg(Contested=("Candidate", "count"),                      *)
(*                  Won=("Rank", lambda x: (x == 1).sum())).reset_index()  *)
GroupAgg(t, col) ==
    LET groups == UniqueSorted(t, col)
        of(g) == SelectSeq(t, LAMBDA r : r[col] = g)
    IN  [k \in DOMAIN groups |->
            Row(groups[k],
                [c \in {"Contested", "Won"} |->
                    IF c = "Contested"
                    THEN Len(SelectSeq(of(groups[k]), LAMBDA r : r.Candidate # NaN))
                    ELSE Len(SelectSeq(of(groups[k]), LAMBDA r : r.Rank = 1))])]

(* rows[name] = values: one more cell in every row *)
WithCell(rows, name, values) ==
    [k \in DOMAIN rows |->
        Row(rows[k].label,
            [c \in DOMAIN rows[k].cell \cup {name} |->
                IF c = name THEN values[k] ELSE rows[k].cell[c]])]

(* lines 49, 190-192: (Won / Contested * 100).round(2) *)
WinPct(rows) ==
    WithCell(rows, "Win %",
             [k \in DOMAIN rows |-> DivPct(rows[k].cell["Won"], rows[k].cell["Contested"])])

(* lines 38-53: the binary age split, "Under 40" first *)
AgeSummary(df_party) ==
    LET grouped ==
            GroupAgg(Assign(df_party, "AgeGroup40",
                            [i \in DOMAIN df_party |-> AgeGroup40(df_party[i].Age)]),
                     "AgeGroup40")
        age_summary == WinPct(grouped)
        SortOrder == [k \in DOMAIN age_summary |->
                         IF age_summary[k].label = "Under 40" THEN 0 ELSE 1]
    IN  Tbl(<<"Contested", "Won", "Win %">>, SortAscBy(age_summary, SortOrder))

(* line 92 *)
WithAgeCategory(df_party) ==
    Assign(df_party, "AgeCategory",
           [i \in DOMAIN df_party |-> categorize_age(df_party[i].Age)])

(* lines 95-103: contested and won by age category, in age_order *)
AgeChart(df_party) ==
    LET age_chart_df == GroupAgg(WithAgeCategory(df_party), "AgeCategory")
    IN  Tbl(<<"Contested", "Won">>,
            SortAscBy(age_chart_df,
                      [k \in DOMAIN age_chart_df |->
                          CatIndex(age_chart_df[k].label, age_order)]))

(* lines 141-152: contested by age category and its share of the selection *)
AgeDist(df_party) ==
    LET grouped == GroupAgg(WithAgeCategory(df_party), "AgeCategory")
        age_dist == SortAscBy(grouped,
                              [k \in DOMAIN grouped |->
                                  CatIndex(grouped[k].label, age_order)])
        total_contested_party == Len(df_party)
    IN  Tbl(<<"Contested", "% of Total Contested">>,
            WithCell([k \in DOMAIN age_dist |->
                         Row(age_dist[k].label,
                             [c \in {"Contested"} |-> age_dist[k].cell[c]])],
                     "% of Total Contested",
                     [k \in DOMAIN age_dist |->
                         DivPct(age_dist[k].cell["Contested"], total_contested_party)]))

(* lines 181-195: contested, won and win % by gender, M / F spelled out *)
GenderTable(df_party) ==
    LET gender_table == WinPct(GroupAgg(df_party, "Gender"))
        replace(g) == IF g = "M" THEN "Male" ELSE IF g = "F" THEN "Female" ELSE g
    IN  Tbl(<<"Contested", "Won", "Win %">>,
            [k \in DOMAIN gender_table |->
                Row(replace(gender_table[k].label), gender_table[k].cell)])

(* lines 29-34: the selected party's rows, of every tier (the Tier filter  *)
(* of line 17 is commented out)                                            *)
OtherSelection(t, selected_party, selected_district) ==
    IF selected_district = "Kerala"
    THEN SelectSeq(t, LAMBDA r : r.Party = selected_party)
    ELSE SelectSeq(t, LAMBDA r : r.Party = selected_party
                                 /\ r.District = selected_district)

(* The tables one run of the Other page leaves for a selection. *)
OtherView(t, selected_party, selected_district) ==
    LET df_party == OtherSelection(t, selected_party, selected_district)
    IN  [page |-> "Other", selected_party |-> selected_party,
         selected_district |-> selected_district, selected_lb |-> NaN,
         error |-> "",
         age_summary |-> AgeSummary(df_party),
         age_chart_df |-> AgeChart(df_party),
         age_dist |-> AgeDist(df_party),
         gender_table |-> GenderTable(df_party)]

(* pages/Other.py, top to bottom: the party is picked among the parties of *)
(* all rows, the district among "Kerala" and the districts of all rows.    *)
RunOther ==
    LET parties == UniqueSorted(data, "Party")
        districts == <<"Kerala">> \o UniqueSorted(data, "District")
    IN  /\ df' = data
        /\ source = WellFormed
        /\ UNCHANGED <<data, source>>
        /\ \E selected_party \in (IF parties = <<>> THEN {None} ELSE Range(parties)),
              selected_district \in Range(districts) :
               view' = OtherView(data, selected_party, selected_district)

-----------------------------------------------------------------------------
(* Input datasets.  A row of Data/lsgd_data.csv; Front follows Party. *)

FrontOf(party) ==
    CASE party \in {"INC", "IUML", "CMP"} -> "UDF"
      [] party \in {"CPM", "INL"} -> "LDF"
      [] party = "BJP" -> "NDA"
      [] party = "XP" -> "XYZ"
      [] OTHER -> "OTH"

CsvRow(district, lbname, lbtype, tier, ward, party, rank, votes) ==
    [District |-> district, LBName |-> lbname, LBType |-> lbtype, Tier |-> tier,
     WardCode |-> ward, WardName |-> <<"ward", ward>>,
     Candidate |-> <<"cand", rank>>, Party |-> party, Front |-> FrontOf(party),
     Rank |-> rank, Votes |-> votes,
     Lead |-> IF rank = 1 THEN 5 ELSE 0 - rank,
     Age |-> 40, Gender |-> "M"]

(* the row with the candidate's age and gender given *)
Aged(row, age, gender) == [row EXCEPT !.Age = age, !.Gender = gender]

(* Block-tier winners of all four fronts in MALAPPURAM (indirect election, *)
(* no vote counts)                                                         *)
FourWinners ==
    [k \in 1..4 |->
        CsvRow("MALAPPURAM", "LBA", "Block", "Block", 0,
               <<"INC", "CPM", "BJP", "IND">>[k], 1, NaNVotes)]

RECURSIVE SeqsUpTo(_, _)
SeqsUpTo(U, n) ==
    IF n = 0 THEN {<<>>}
    ELSE LET shorter == SeqsUpTo(U, n - 1)
         IN  shorter \cup {Append(t, r) : t \in shorter, r \in U}

(* Up to MaxRows rows of U after one of the given leading blocks of rows *)
Datasets(Bases, U) == {b \o t : b \in Bases, t \in SeqsUpTo(U, MaxRows)}

(* Ward candidates of two UDF parties at ranks 1..3: the lower the rank the *)
(* more votes, the last with none                                           *)
UdfRows ==
    {CsvRow("MALAPPURAM", "LBA", "Grama", "Ward", 101, p, r, 3 - r) :
        p \in {"INC", "IUML"}, r \in 1..3}

(* ... and a Block-tier winner of one of them *)
TotalsRows ==
    UdfRows \cup {CsvRow("MALAPPURAM", "LBA", "Block", "Block", 0, "IUML", 1, 4)}

(* ... and an LDF ward winner without votes and a ward of another district *)
RatioRows ==
    TotalsRows
    \cup {CsvRow("MALAPPURAM", "LBA", "Municipality", "Ward", 102, "CPM", 1, 0),
          CsvRow("KOLLAM", "LBB", "Grama", "Ward", 201, "IUML", 2, 1)}

(* Winners of the four fronts and of a fifth one, with a listed and an    *)
(* unlisted LBType value, a runner-up and a winner of another district    *)
SeatRows ==
    {CsvRow("MALAPPURAM", "LBA", lt, "Ward", 101, p, 1, 1) :
        p \in {"INC", "CPM", "BJP", "IND", "XP"}, lt \in {"Grama", "Taluk"}}
    \cup {CsvRow("MALAPPURAM", "LBA", "Grama", "Ward", 101, "INC", 2, 1),
          CsvRow("KOLLAM", "LBB", "Grama", "Ward", 201, "INC", 1, 1)}

(* Two wards of one local body with candidates of two parties at ranks    *)
(* 1..3, and a runner-up of a ward of another local body                  *)
WardRows ==
    {CsvRow("MALAPPURAM", "LBA", "Grama", "Ward", w, p, r, 3 - r) :
        w \in {101, 102}, p \in {"IUML", "CPM"}, r \in 1..3}
    \cup {CsvRow("MALAPPURAM", "LBB", "Grama", "Ward", 201, "IUML", 2, 1)}

(* IUML candidates of one local body at the edges of the age buckets, one *)
(* without age, a Block-tier winner, a candidate of another district and  *)
(* one of another party                                                   *)
AgeRows ==
    {Aged(CsvRow("MALAPPURAM", "LBA", "Grama", "Ward", 101, "IUML", 1 + (a % 2), 1),
          a, IF a < 40 THEN "F" ELSE "M") :
        a \in {24, 25, 35, 39, 40, 50, 59, 60}}
    \cup {Aged(CsvRow("MALAPPURAM", "LBA", "Grama", "Ward", 101, "IUML", 1, 1),
               NaNAge, "F"),
          Aged(CsvRow("MALAPPURAM", "LBA", "Block", "Block", 0, "IUML", 1, NaNVotes),
               30, "M"),
          Aged(CsvRow("KOLLAM", "LBB", "Grama", "Ward", 201, "IUML", 2, 1), 45, "F"),
          Aged(CsvRow("MALAPPURAM", "LBA", "Grama", "Ward", 101, "CPM", 2, 1), 52, "M")}

(* Ward-tier candidates of two UDF parties, a Block-tier winner with a     *)
(* vote count and a ward candidate of another district                    *)
TierRows ==
    {CsvRow("MALAPPURAM", "LBA", "Grama", "Ward", 101, "IUML", 1, 2),
     CsvRow("MALAPPURAM", "LBA", "Grama", "Ward", 101, "INC", 2, 1),
     CsvRow("MALAPPURAM", "LBA", "Block", "Block", 0, "IUML", 1, 4),
     CsvRow("MALAPPURAM", "LBA", "District", "District", 0, "IUML", 2, NaNVotes),
     CsvRow("KOLLAM", "LBB", "Grama", "Ward", 201, "IUML", 2, 1)}

(* Ward candidates of three parties of the comparison list and of one    *)
(* outside it, with different vote counts, a Block-tier row and a ward    *)
(* candidate of another district                                          *)
CompareRows ==
    {CsvRow("MALAPPURAM", "LBA", "Grama", "Ward", 101, "IUML", 1, 2),
     CsvRow("MALAPPURAM", "LBA", "Grama", "Ward", 101, "SDPI", 2, 3),
     CsvRow("MALAPPURAM", "LBA", "Grama", "Ward", 102, "PDP", 1, 1),
     CsvRow("MALAPPURAM", "LBA", "Grama", "Ward", 102, "INC", 2, 4),
     CsvRow("MALAPPURAM", "LBA", "Block", "Block", 0, "SDPI", 1, 5),
     CsvRow("KOLLAM", "LBB", "Grama", "Ward", 201, "SDPI", 1, 6),
     CsvRow("KOLLAM", "LBB", "Grama", "Ward", 201, "IUML", 2, 0)}

(* Ward winners of three OTH parties without a colour of their own *)
ThreeOthWinners ==
    [k \in 1..3 |->
        CsvRow("MALAPPURAM", "LBA", "Grama", "Ward", 100 + k,
               <<"SDPI", "WPI", "PDP">>[k], 1, 1)]

(* Winners of a fourth such party, of parties with a colour of their own, *)
(* of parties of other fronts and of a front without palette; a runner-up *)
(* and a winner of another local body                                     *)
ColorRows ==
    {CsvRow("MALAPPURAM", "LBA", "Grama", "Ward", 104, q, 1, 1) :
        q \in {"NSC", "SDPI", "IND", "IUML", "CMP", "INL", "XP"}}
    \cup {CsvRow("MALAPPURAM", "LBA", "Grama", "Ward", 104, "WPI", 2, 1),
          CsvRow("MALAPPURAM", "LBB", "Grama", "Ward", 201, "PDP", 1, 1)}

(* Ward candidates of five fronts with different vote counts, one without *)
(* a vote count, and a Block-tier row with votes                           *)
VoteRows ==
    {CsvRow("MALAPPURAM", "LBA", "Grama", "Ward", 101, "IUML", 1, 2),
     CsvRow("MALAPPURAM", "LBA", "Grama", "Ward", 101, "INC", 2, 3),
     CsvRow("MALAPPURAM", "LBA", "Grama", "Ward", 102, "CPM", 1, 3),
     CsvRow("MALAPPURAM", "LBA", "Grama", "Ward", 102, "INL", 2, 5),
     CsvRow("MALAPPURAM", "LBA", "Grama", "Ward", 102, "XP", 3, 1),
     CsvRow("MALAPPURAM", "LBA", "Grama", "Ward", 103, "BJP", 1, NaNVotes),
     CsvRow("MALAPPURAM", "LBA", "Block", "Block", 0, "CPM", 1, 9)}

-----------------------------------------------------------------------------
(* Specifications: page scripts rerun in any order over one cached dataset *)

InitWith(Bases, U) ==
    /\ data \in Datasets(Bases, U)
    /\ df = data
    /\ view = [page |-> "none"]
    /\ source = WellFormed

InitRatio == InitWith({FourWinners}, RatioRows)

NextRatio == RunOverall \/ RunDistrict \/ RunParty

SpecRatio == InitRatio /\ [][NextRatio]_vars

InitTotals == InitWith({FourWinners}, TotalsRows)

NextTotals == RunDistrict \/ RunParty

SpecTotals == InitTotals /\ [][NextTotals]_vars

InitSeats == InitWith({<<>>, FourWinners}, SeatRows)

NextSeats == RunOverall \/ RunDistrict \/ RunLocalBody

SpecSeats == InitSeats /\ [][NextSeats]_vars

InitJoin == InitWith({<<>>}, WardRows)

NextJoin == RunLocalBody

SpecJoin == InitJoin /\ [][NextJoin]_vars

InitOther == InitWith({<<>>}, AgeRows)

NextOther == RunOther

SpecOther == InitOther /\ [][NextOther]_vars

InitCompare == InitWith({<<>>}, CompareRows)

NextCompare == RunParty

SpecCompare == InitCompare /\ [][NextCompare]_vars

InitColor == InitWith({<<>>, ThreeOthWinners}, ColorRows)

NextColor == RunLocalBody

SpecColor == InitColor /\ [][NextColor]_vars

NextColorLoop == StartColorLoop \/ StepColorLoop

SpecColorLoop == InitColor /\ [][NextColorLoop]_vars

InitVotes == InitWith({<<>>}, VoteRows)

NextVotes == RunOverall

SpecVotes == InitVotes /\ [][NextVotes]_vars

(* A file that is empty or ragged, or a table          without one of the  *)
(* columns the seat tables need, or a well-formed one                      *)
Sources ==
    {[kind |-> k, columns |-> {}] : k \in {"empty", "ragged"}}
    \cup {[kind |-> "table", columns |-> AllColumns \ {c}] :
             c \in {"District", "LBType", "Tier", "Party", "Front", "Rank", "Candidate"}}
    \cup {WellFormed}

InitLoad ==
    /\ source \in Sources
    /\ data \in (IF source.kind = "table"
                  THEN Datasets({<<>>}, {r \in TierRows : r.Rank = 1})
                  ELSE {<<>>})
    /\ df = data
    /\ view = [page |-> "none"]

NextLoad == RunOverall \/ RunDistrict \/ RunOverallFaulty \/ RunDistrictFaulty

SpecLoad == InitLoad /\ [][NextLoad]_vars

InitTiers == InitWith({FourWinners}, TierRows)

NextTiers == RunOverall \/ RunDistrict \/ RunParty \/ RunOther

SpecTiers == InitTiers /\ [][NextTiers]_vars

Next ==
    \/ RunOverall \/ RunDistrict \/ RunParty \/ RunLocalBody \/ RunOther
    \/ RunOverallFaulty \/ RunDistrictFaulty
    \/ StartColorLoop \/ StepColorLoop

Spec == InitRatio /\ [][Next]_vars

-----------------------------------------------------------------------------
(* Properties *)

DataRows(tbl, margin) == SelectSeq(tbl.rows, LAMBDA row : row.label # margin)

ColumnSum(rows, c) == SeqSum([k \in DOMAIN rows |-> rows[k].cell[c]])

(* round(n / d * 100, 2), in hundredths of a percent, for d > 0 *)
Percent(n, d) == Num(RoundHalfEven(n * 10000, d))

(* a ratio that is a number, and 0 when its denominator is 0 *)
ZeroSafe(ratio, denominator) ==
    ratio.k = "num" /\ (denominator = 0 => ratio.v = 0)

SelectedWardRows ==
    SelectSeq(data, LAMBDA r :
        /\ r.Tier = "Ward"
        /\ view.selected_district \in {"Kerala", r.District})

(* The rows the District page's UDF table is computed from *)
DistrictUdfRows ==
    SelectSeq(data, LAMBDA r : /\ r.Front = "UDF"
                               /\ r.Tier = "Ward"
                               /\ r.District = view.selected_district)

(* The District page got as far as its UDF table *)
DistrictAtSummary == view.page = "District" /\ view.pivot_table.rendered

(* C1: every derived percentage is a number and is 0 when its denominator  *)
(* is 0 (never NaN, never an error): the rows and the Total row of the     *)
(* District UDF hit-rate table, the Party page's vote share, strike rate   *)
(* and allied-party rows, the Overall front and party vote shares.         *)
C1_RatioZeroOnZeroDenominator ==
    /\ DistrictAtSummary =>
          /\ view.summary.rendered
          /\ \A k \in DOMAIN view.summary.rows :
                ZeroSafe(view.summary.rows[k].cell["Hit Rate (%)"],
                         view.summary.rows[k].cell["Contested"])
    /\ view.page = "Party" =>
          /\ ZeroSafe(view.vote_share, view.total_votes_all)
          /\ ZeroSafe(view.strike_rate, view.seats_contested)
          /\ \A k \in DOMAIN view.compare_df.rows :
                LET cell == view.compare_df.rows[k].cell
                IN  /\ ZeroSafe(cell["Strike Rate (%)"], cell["Contested"])
                    /\ ZeroSafe(cell["Vote Share (%)"], view.total_votes_all)
    /\ view.page = "Overall" =>
          /\ \A k \in DOMAIN view.front_votes.rows :
                ZeroSafe(view.front_votes.rows[k].cell["% Share"], view.total_votes)
          /\ \A f \in Range(front_priority) :
                \A k \in DOMAIN view.party_votes[f].rows :
                    LET cell == view.party_votes[f].rows[k].cell
                    IN  /\ ZeroSafe(cell["% Front Share"],
                                    ColumnSum(view.party_votes[f].rows, "Votes"))
                        /\ ZeroSafe(cell["% Total Share"], view.total_votes)

(* C2: the ratio of a synthetic total row is round(sum(Won) /              *)
(* sum(Contested) * 100, 2) over the data rows: the "Total" row of the     *)
(* District UDF table and the "Contested" margin row of the Party pivot    *)
(* (whose Won sum is 0 when no row has rank 1).                            *)
C2_TotalRatioFromSums ==
    /\ (view.page = "District" /\ view.summary.rendered) =>
          LET rows == DataRows(view.summary, "Total")
          IN  RowOf(view.summary, "Total").cell["Hit Rate (%)"]
                = Percent(ColumnSum(rows, "Won"), ColumnSum(rows, "Contested"))
    /\ (view.page = "Party" /\ view.pivot.rows # <<>>) =>
          LET rows == DataRows(view.pivot, "Contested")
              won == IF "Won" \in Range(view.pivot.columns)
                     THEN ColumnSum(rows, "Won") ELSE 0
          IN  RowOf(view.pivot, "Contested").cell["Strike Rate (%)"]
                = Percent(won, ColumnSum(rows, "Contested"))

(* C2 witness: a District UDF table of two parties where the Total rate    *)
(* (33.33) is neither the mean (50) nor the sum (100) of the party rates   *)
C2_Witness ==
    /\ view.page = "District"
    /\ view.summary.rendered
    /\ LET rows == DataRows(view.summary, "Total")
           rate_sum == SeqSum([k \in DOMAIN rows |-> rows[k].cell["Hit Rate (%)"].v])
           total == RowOf(view.summary, "Total").cell["Hit Rate (%)"]
       IN  /\ Len(rows) = 2
           /\ total = Num(3333)
           /\ rate_sum = 10000
           /\ total.v * Len(rows) # rate_sum

(* Rank labels above 1 among the given rows, ascending *)
OtherRanks(t) ==
    SelectSeq(RankLabels, LAMBDA c :
        c # "1" /\ \E i \in DOMAIN t : RankLabel(t[i].Rank) = c)

(* C3: for a non-empty input the rank pivot's columns are Won, the other   *)
(* ranks ascending, Contested and the ratio column, in that order, Won     *)
(* being there also when no row has rank 1 (Party pivot, District table).  *)
C3_RankPivotColumns ==
    /\ view.page = "Party" =>
          LET df_party == SelectSeq(SelectedWardRows,
                                    LAMBDA r : r.Party = view.selected_party)
          IN  df_party # <<>> =>
                 view.pivot.columns
                   = <<"Won">> \o OtherRanks(df_party)
                     \o <<"Contested", "Strike Rate (%)">>
    /\ (DistrictAtSummary /\ DistrictUdfRows # <<>>) =>
          /\ view.summary.rendered
          /\ view.summary.columns
               = <<"Won">> \o OtherRanks(DistrictUdfRows)
                 \o <<"Contested", "Hit Rate (%)">>

(* The claimed row order of a table grouped by front *)
FrontOrder(S) ==
    SelectSeq(front_priority, LAMBDA f : f \in S) \o sorted(S \ Range(front_priority))

FrontsOf(t) == {t[i].Front : i \in DOMAIN t} \ {NaN}

(* Winners a Front x LBType pivot is computed from (all districts, or one) *)
Winners(district) ==
    SelectSeq(data, LAMBDA r : r.Rank = 1 /\ district \in {"Kerala", r.District})

ListedWinners(district) ==
    SelectSeq(Winners(district), LAMBDA r : r.LBType \in Range(lbtype_order))

(* Ward-tier rows of the local body selected on the Local Body page *)
LocalBodyRows ==
    SelectSeq(data, LAMBDA r : /\ r.Tier = "Ward"
                               /\ r.District = view.selected_district
                               /\ r.LBName = view.selected_lb)

LocalBodyWinners == SelectSeq(LocalBodyRows, LAMBDA r : r.Rank = 1)

(* C4: a table grouped by front lists UDF, LDF, NDA, OTH, then every other *)
(* front alphabetically under its own label, then "Total" last if present  *)
(* (Overall and District Front x LBType tables, Local Body seats table).   *)
C4_FrontRowOrder ==
    /\ (view.page = "Overall" /\ ListedWinners("Kerala") # <<>>) =>
          Labels(view.front_pivot)
            = Append(FrontOrder(FrontsOf(ListedWinners("Kerala"))), "Total")
    /\ (view.page = "District" /\ view.pivot_table.rendered) =>
          Labels(view.pivot_table)
            = Append(FrontOrder(FrontsOf(ListedWinners(view.selected_district))),
                     "Total")
    /\ view.page = "LocalBody" =>
          Labels(view.front_summary) = FrontOrder(FrontsOf(LocalBodyWinners))

(* C5: the District UDF table lists IUML first, then INC, then the other   *)
(* parties alphabetically, and the "Total" row last.                       *)
C5_PartyPriorityOrder ==
    (view.page = "District" /\ view.summary.rendered) =>
        LET parties == {DistrictUdfRows[i].Party : i \in DOMAIN DistrictUdfRows}
        IN  Labels(view.summary)
              = SelectSeq(<<"IUML", "INC">>, LAMBDA q : q \in parties)
                \o sorted(parties \ {"IUML", "INC"})
                \o <<"Total">>

(* C6: every category of the fixed ordering is there, with count 0 when no *)
(* selected row has it: UDF, LDF, NDA, OTH as rows of the District pivot   *)
(* and of the Local Body seats table and as columns of the District        *)
(* per-local-body table, the five LBType values as columns of the          *)
(* Front x LBType pivots.                                                  *)
C6_ZeroFilledCategories ==
    /\ (view.page = "District" /\ view.error # "ValueError:21"
          /\ Winners(view.selected_district) # <<>>) =>
          /\ view.pivot_table.rendered
          /\ Range(front_priority) \subseteq Range(Labels(view.pivot_table))
          /\ Range(lbtype_order) \subseteq Range(view.pivot_table.columns)
          /\ view.lb_summary.rendered =>
                Range(front_priority) \subseteq Range(view.lb_summary.columns)
    /\ (view.page = "LocalBody" /\ LocalBodyWinners # <<>>) =>
          Range(front_priority) \subseteq Range(Labels(view.front_summary))
    /\ (view.page = "Overall" /\ ListedWinners("Kerala") # <<>>) =>
          Range(lbtype_order) \subseteq Range(view.front_pivot.columns)

(* The margins of a Front x LBType pivot add up and account for n rows *)
MarginsAccountFor(tbl, n) ==
    /\ "Total" \in Range(Labels(tbl))
    /\ "Total" \in Range(tbl.columns)
    /\ LET rows == DataRows(tbl, "Total")
           total == RowOf(tbl, "Total")
           types == Range(tbl.columns) \ {"Total"}
       IN  /\ total.cell["Total"] = n
           /\ \A c \in Range(tbl.columns) : total.cell[c] = ColumnSum(rows, c)
           /\ \A k \in DOMAIN rows :
                 rows[k].cell["Total"]
                   = SeqSum([j \in DOMAIN lbtype_order |->
                                IF lbtype_order[j] \in types
                                THEN rows[k].cell[lbtype_order[j]] ELSE 0])

(* C7: the grouped counts sum to the number of selected rows: the grand    *)
(* "Total" of the Overall and District Front x LBType pivots is the number *)
(* of rank-1 rows selected and the margins are the sums of their rows and  *)
(* columns; no row is lost for an LBType or Front outside the fixed lists. *)
C7_CountsSumToLen ==
    /\ (view.page = "Overall" /\ Winners("Kerala") # <<>>) =>
          MarginsAccountFor(view.front_pivot, Len(Winners("Kerala")))
    /\ (view.page = "District" /\ view.pivot_table.rendered) =>
          MarginsAccountFor(view.pivot_table, Len(Winners(view.selected_district)))

WardsOf(t) == {t[i].WardCode : i \in DOMAIN t}

AtRank(t, ward, rank) ==
    SelectSeq(t, LAMBDA r : r.WardCode = ward /\ r.Rank = rank)

RecordsOf(ward) ==
    {k \in DOMAIN view.final_table : view.final_table[k].WardName = <<"ward", ward>>}

(* C8: a ward with a rank-1 row and no rank-2 row yields exactly one       *)
(* joined record, with the winner's fields and null runner-up fields.      *)
C8_UncontestedWardJoined ==
    (view.page = "LocalBody" /\ view.joined) =>
        \A w \in WardsOf(LocalBodyRows) :
            (Len(AtRank(LocalBodyRows, w, 1)) = 1 /\ AtRank(LocalBodyRows, w, 2) = <<>>) =>
                /\ Cardinality(RecordsOf(w)) = 1
                /\ \A k \in RecordsOf(w) :
                      /\ view.final_table[k].Won = AtRank(LocalBodyRows, w, 1)[1].Candidate
                      /\ view.final_table[k].Trail = <<NaN, NaN>>

(* Wards with exactly one rank-1 row and exactly one rank-2 row *)
ContestedWards ==
    {w \in WardsOf(LocalBodyRows) :
        Len(AtRank(LocalBodyRows, w, 1)) = 1 /\ Len(AtRank(LocalBodyRows, w, 2)) = 1}

C10_LoadedTableUnchanged ==
    view.page # "none" => df = data


(* The Ward-tier rows of the selected party in the selected district *)
PartyWardRows ==
    SelectSeq(SelectedWardRows, LAMBDA r : r.Party = view.selected_party)

(* C11: no Block- or District-tier row contributes to a vote total or to a *)
(* win/loss percentage: the Contested and Won figures of the Other page's  *)
(* age and gender tables, the Overall vote total, the District hit-rate    *)
(* table and the Party page's votes and seats count Ward-tier rows only.   *)
C11_WardTierOnly ==
    /\ view.page = "Other" =>
          \A tbl \in {view.age_summary, view.gender_table} :
             /\ ColumnSum(tbl.rows, "Contested") = Len(PartyWardRows)
             /\ ColumnSum(tbl.rows, "Won")
                   = Len(SelectSeq(PartyWardRows, LAMBDA r : r.Rank = 1))
    /\ view.page = "Overall" =>
          /\ view.total_votes
                = SumVotes(SelectSeq(data, LAMBDA r : r.Tier = "Ward"))
          /\ ColumnSum(view.front_votes.rows, "Votes") = view.total_votes
    /\ (view.page = "District" /\ view.summary.rendered) =>
          RowOf(view.summary, "Total").cell["Contested"] = Len(DistrictUdfRows)
    /\ view.page = "Party" =>
          /\ view.seats_contested = Len(PartyWardRows)
          /\ view.seats_won = Len(SelectSeq(PartyWardRows, LAMBDA r : r.Rank = 1))
          /\ view.total_votes = SumVotes(PartyWardRows)


(* C12: a selection that matches no row still yields its tables, empty or  *)
(* zero-filled, and no error: the District seats pivot and UDF hit-rate    *)
(* table for any selected district, the Party rank pivot, the Local Body   *)
(* ward-wise join.                                                         *)
C12_EmptySelectionCompletes ==
    /\ (view.page = "District" /\ view.selected_district # NaN) =>
          /\ view.pivot_table.rendered
          /\ view.summary.rendered
    /\ view.page = "Party" => view.pivot.rendered
    /\ view.page = "LocalBody" => view.joined


(* The rows the Other page's tables are computed from *)
OtherRows ==
    SelectSeq(data, LAMBDA r : /\ r.Party = view.selected_party
                               /\ view.selected_district \in {"Kerala", r.District})

(* Rows of t whose age is known and lies in [lo, hi) *)
AgedIn(t, lo, hi) ==
    SelectSeq(t, LAMBDA r : r.Age # NaNAge /\ lo <= r.Age /\ r.Age < hi)

(* the labels of `order` whose count is positive, in that order *)
Present(order, count) == SelectSeq(order, LAMBDA b : count[b] > 0)

(* C13: "Under 40" holds exactly the candidates of age < 40 and "Over 40"  *)
(* all others (age 40 included), and the "Under 40" row comes first.       *)
C13_BinaryAgeSplit ==
    view.page = "Other" =>
        LET under == Len(AgedIn(OtherRows, 0, 40))
            count == [b \in {"Under 40", "Over 40"} |->
                         IF b = "Under 40" THEN under ELSE Len(OtherRows) - under]
        IN  /\ Labels(view.age_summary) = Present(<<"Under 40", "Over 40">>, count)
            /\ \A k \in DOMAIN view.age_summary.rows :
                  view.age_summary.rows[k].cell["Contested"]
                     = count[view.age_summary.rows[k].label]

(* C13 witness: candidates aged 40 and 39 selected, shown in two rows *)
C13_Witness ==
    /\ view.page = "Other"
    /\ \E i, j \in DOMAIN OtherRows : OtherRows[i].Age = 40 /\ OtherRows[j].Age = 39
    /\ Labels(view.age_summary) = <<"Under 40", "Over 40">>
    /\ RowOf(view.age_summary, "Over 40").cell["Contested"]
          = Len(SelectSeq(OtherRows, LAMBDA r : r.Age = 40))

(* The half-open age intervals of the five buckets *)
AgeIntervals ==
    [b \in Range(age_order) |->
        CASE b = "< 25" -> <<0, 25>>
          [] b = "25 - 35" -> <<25, 35>>
          [] b = "35 - 50" -> <<35, 50>>
          [] b = "50 - 60" -> <<50, 60>>
          [] OTHER -> <<60, 200>>]

(* Candidates per bucket by the intervals; one without age counts as 60+ *)
BucketCount ==
    [b \in Range(age_order) |->
        Len(AgedIn(OtherRows, AgeIntervals[b][1], AgeIntervals[b][2]))
        + (IF b = "60+"
           THEN Len(SelectSeq(OtherRows, LAMBDA r : r.Age = NaNAge)) ELSE 0)]

(* C14: each age is counted in the bucket of the half-open intervals       *)
(* [0,25), [25,35), [35,50), [50,60), [60,inf), and the age tables list    *)
(* the buckets in that order.                                              *)
C14_AgeBuckets ==
    view.page = "Other" =>
        \A tbl \in {view.age_chart_df, view.age_dist} :
           /\ Labels(tbl) = Present(age_order, BucketCount)
           /\ \A k \in DOMAIN tbl.rows :
                 tbl.rows[k].cell["Contested"] = BucketCount[tbl.rows[k].label]

(* C14 witness: a candidate at a lower bound beside a younger one, the     *)
(* "< 25" row listed first                                                 *)
C14_Witness ==
    /\ view.page = "Other"
    /\ \E i, j \in DOMAIN OtherRows : OtherRows[i].Age = 25 /\ OtherRows[j].Age = 24
    /\ \E i \in DOMAIN OtherRows : OtherRows[i].Age \in {35, 50, 60}
    /\ Len(view.age_dist.rows) = 3
    /\ view.age_dist.rows[1].label = "< 25"
    /\ view.age_dist.rows[2].label = "25 - 35"


(* The Ward-tier rows of a party in the selected district *)
WardRowsOf(party) == SelectSeq(SelectedWardRows, LAMBDA r : r.Party = party)

(* round(n / d * 100, 2) when d > 0, else 0 *)
PercentOrZero(n, d) == IF d > 0 THEN Percent(n, d) ELSE Num(0)

(* C15: the comparison table has one row per party of the comparison list, *)
(* zeros for a party without ward rows in the selection; the figures come  *)
(* from the party's Ward-tier rows of the selected district; the rows are  *)
(* in descending order of "Votes Secured".                                 *)
C15_ComparisonTable ==
    (view.page = "Party" /\ view.compare_df.rendered) =>
        LET rows == view.compare_df.rows
        IN  /\ Len(rows) = Len(compare_parties)
            /\ \A q \in Range(compare_parties) :
                  Cardinality({k \in DOMAIN rows : rows[k].label = q}) = 1
            /\ \A k \in DOMAIN rows :
                  LET mine == WardRowsOf(rows[k].label)
                      won == Len(SelectSeq(mine, LAMBDA r : r.Rank = 1))
                  IN  /\ rows[k].cell["Contested"] = Len(mine)
                      /\ rows[k].cell["Won"] = won
                      /\ rows[k].cell["Strike Rate (%)"] = PercentOrZero(won, Len(mine))
                      /\ rows[k].cell["Votes Secured"] = SumVotes(mine)
                      /\ rows[k].cell["Vote Share (%)"]
                            = PercentOrZero(SumVotes(mine), SumVotes(SelectedWardRows))
            /\ \A k \in 1..(Len(rows) - 1) :
                  rows[k].cell["Votes Secured"] >= rows[k + 1].cell["Votes Secured"]

(* C15 witness: a later party of the list with more votes than IUML is     *)
(* the first row, and a party without rows has a row of zeros              *)
C15_Witness ==
    /\ view.page = "Party"
    /\ view.compare_df.rendered
    /\ view.compare_df.rows[1].label = "SDPI"
    /\ view.compare_df.rows[2].label = "IUML"
    /\ view.compare_df.rows[2].cell["Votes Secured"] > 0
    /\ RowOf(view.compare_df, "WPI").cell["Contested"] = 0
    /\ RowOf(view.compare_df, "WPI").cell["Vote Share (%)"] = Num(0)


(* Position of the first winner row of a party in the selected local body *)
FirstSeen(q) ==
    CHOOSE i \in DOMAIN LocalBodyWinners :
        /\ LocalBodyWinners[i].Party = q
        /\ \A j \in 1..(i - 1) : LocalBodyWinners[j].Party # q

(* Parties without an override colour, of the front of q, first seen     *)
(* before q                                                               *)
EarlierOfFront(q) ==
    {o \in {LocalBodyWinners[i].Party : i \in DOMAIN LocalBodyWinners} :
        /\ o \notin DOMAIN party_specific_colors
        /\ LocalBodyWinners[FirstSeen(o)].Front = LocalBodyWinners[FirstSeen(q)].Front
        /\ FirstSeen(o) < FirstSeen(q)}

(* C16: over the winner rows of the local body, a party of the override   *)
(* table has its override colour; another party whose front has a palette *)
(* has palette[k mod len], k the number of non-override parties of the    *)
(* same front first seen earlier; a party of a front without palette has  *)
(* the default grey.                                                      *)
C16_PartyColours ==
    view.page = "LocalBody" =>
        \A i \in DOMAIN LocalBodyWinners :
           LET q == LocalBodyWinners[i].Party
               front == LocalBodyWinners[FirstSeen(q)].Front
           IN  /\ q \in DOMAIN view.final_party_color_map
               /\ view.final_party_color_map[q] =
                     IF q \in DOMAIN party_specific_colors
                     THEN party_specific_colors[q]
                     ELSE IF front \in DOMAIN front_palettes
                     THEN front_palettes[front][
                              (Cardinality(EarlierOfFront(q)) % Len(front_palettes[front])) + 1]
                     ELSE "#CCCCCC"

(* C16 witness: the fourth OTH party wraps to the first grey shade, after *)
(* an independent that keeps its own colour                               *)
C16_Witness ==
    /\ view.page = "LocalBody"
    /\ {"SDPI", "WPI", "PDP", "IND", "NSC"} \subseteq DOMAIN view.final_party_color_map
    /\ FirstSeen("IND") < FirstSeen("NSC")
    /\ view.final_party_color_map["NSC"] = view.final_party_color_map["SDPI"]
    /\ view.final_party_color_map["WPI"] = "#5F5F5F"
    /\ view.final_party_color_map["IND"] = "#7F7F7F"


(* The rows the Overall vote tables are computed from *)
VotedWardRows ==
    SelectSeq(data, LAMBDA r : r.Tier = "Ward" /\ r.Votes # NaNVotes)

(* tbl has one row per value of col among the rows t, with the sum of its *)
(* votes, in descending order of Votes                                    *)
IsVoteSumTable(tbl, t, col) ==
    /\ \A g \in {t[i][col] : i \in DOMAIN t} :
          Cardinality({k \in DOMAIN tbl.rows : tbl.rows[k].label = g}) = 1
    /\ \A k \in DOMAIN tbl.rows :
          /\ \E i \in DOMAIN t : t[i][col] = tbl.rows[k].label
          /\ tbl.rows[k].cell["Votes"]
                = SumVotes(SelectSeq(t, LAMBDA r : r[col] = tbl.rows[k].label))
    /\ \A k \in 1..(Len(tbl.rows) - 1) :
          tbl.rows[k].cell["Votes"] >= tbl.rows[k + 1].cell["Votes"]

(* C17: the Overall votes-by-front table and the votes-by-party table of  *)
(* each front have one row per group present among the Ward-tier rows     *)
(* with votes, each with the sum of the group's votes, in descending      *)
(* order of Votes; the front sums add up to the overall total and the     *)
(* party sums of a front to that front's total.                           *)
C17_VoteSumTables ==
    view.page = "Overall" =>
        /\ IsVoteSumTable(view.front_votes, VotedWardRows, "Front")
        /\ ColumnSum(view.front_votes.rows, "Votes") = view.total_votes
        /\ view.total_votes = SumVotes(VotedWardRows)
        /\ \A f \in Range(front_priority) :
              LET df_front == SelectSeq(VotedWardRows, LAMBDA r : r.Front = f)
              IN  /\ IsVoteSumTable(view.party_votes[f], df_front, "Party")
                  /\ ColumnSum(view.party_votes[f].rows, "Votes") = SumVotes(df_front)
                  /\ \A k \in DOMAIN view.front_votes.rows :
                        view.front_votes.rows[k].label = f =>
                           view.front_votes.rows[k].cell["Votes"] = SumVotes(df_front)

(* C17 witness: UDF ahead of LDF by votes, against the order of the names, *)
(* with two parties adding up to the UDF total                             *)
C17_Witness ==
    /\ view.page = "Overall"
    /\ Labels(view.front_votes) = <<"UDF", "LDF">>
    /\ view.front_votes.rows[1].cell["Votes"] = 5
    /\ view.front_votes.rows[2].cell["Votes"] = 3
    /\ Labels(view.party_votes["UDF"]) = <<"INC", "IUML">>
    /\ view.total_votes = 8


(* The columns a table must have: district, local_body_type, tier, party, *)
(* front, rank, candidate under their names in the file                   *)
RequiredColumns ==
    {"District", "LBType", "Tier", "Party", "Front", "Rank", "Candidate"}

(* C18: a source that does not parse as a table or lacks a required       *)
(* column makes the load fail with a DataLoadError, before any filter or  *)
(* aggregation on the table.                                              *)
C18_DataLoadError ==
    (/\ view.page # "none"
     /\ ~(source.kind = "table" /\ RequiredColumns \subseteq source.columns)) =>
        /\ view.error = "DataLoadError"
        /\ ~view.loaded


(* The rank-count cells of a row: every column but Contested and the ratio *)
RankCells(tbl, row, ratio) ==
    LET rank_cols == SelectSeq(tbl.columns, LAMBDA c : c \notin {"Contested", ratio})
    IN  [k \in DOMAIN rank_cols |-> row.cell[rank_cols[k]]]

(* Contested is the sum of the row's rank counts and the ratio is a       *)
(* number between 0 and 100 (in hundredths of a percent)                  *)
RowSumsToContested(tbl, ratio) ==
    \A k \in DOMAIN tbl.rows :
       LET row == tbl.rows[k]
       IN  /\ row.cell["Contested"] = SeqSum(RankCells(tbl, row, ratio))
           /\ "Won" \in Range(tbl.columns) => row.cell["Won"] <= row.cell["Contested"]
           /\ row.cell[ratio].k = "num"
           /\ row.cell[ratio].v >= 0
           /\ row.cell[ratio].v <= 10000

(* a count cell of a row, 0 when the table has no such column *)
CellOrZero(tbl, row, c) == IF c \in Range(tbl.columns) THEN row.cell[c] ELSE 0

(* C19: in every row of the Party LBType x Rank pivot and of the District *)
(* UDF party x Rank table, Contested is the sum of the row's rank counts, *)
(* so Won <= Contested and the ratio lies in [0, 100]; the Party page's   *)
(* Seats Contested and Seats Won are the Contested and Won counts of the  *)
(* pivot's "Contested" margin row (a count without column or row being 0).*)
C19_ContestedIsRowSum ==
    /\ view.page = "Party" =>
          /\ RowSumsToContested(view.pivot, "Strike Rate (%)")
          /\ \A k \in DOMAIN view.pivot.rows :
                view.pivot.rows[k].label = "Contested" =>
                   /\ view.pivot.rows[k].cell["Contested"] = view.seats_contested
                   /\ CellOrZero(view.pivot, view.pivot.rows[k], "Won") = view.seats_won
          /\ view.pivot.rows = <<>> => view.seats_contested = 0 /\ view.seats_won = 0
          /\ view.seats_contested = Len(PartyWardRows)
    /\ (view.page = "District" /\ view.summary.rendered) =>
          RowSumsToContested(view.summary, "Hit Rate (%)")

(* C19 witness: a party with a win and two defeats at different ranks in  *)
(* one local body type, the margin row agreeing with the metrics          *)
C19_Witness ==
    /\ view.page = "Party"
    /\ view.pivot.columns = <<"Won", "2", "3", "Contested", "Strike Rate (%)">>
    /\ RowOf(view.pivot, "Contested").cell["Contested"] = 3
    /\ RowOf(view.pivot, "Contested").cell["Won"] = 1
    /\ view.seats_contested = 3
    /\ view.seats_won = 1


(* C20: the age bucketings partition the selected candidates, one without *)
(* age included: over the binary split and over the five age categories   *)
(* the Contested counts add up to the number of selected rows and the Won *)
(* counts to the number of rank-1 rows, and each "% of Total Contested"   *)
(* is the bucket's count over the total.                                  *)
C20_AgePartition ==
    view.page = "Other" =>
        LET won == Len(SelectSeq(OtherRows, LAMBDA r : r.Rank = 1))
        IN  /\ \A tbl \in {view.age_summary, view.age_chart_df} :
                  /\ ColumnSum(tbl.rows, "Contested") = Len(OtherRows)
                  /\ ColumnSum(tbl.rows, "Won") = won
            /\ Range(Labels(view.age_summary)) \subseteq {"Under 40", "Over 40"}
            /\ \A tbl \in {view.age_chart_df, view.age_dist} :
                  /\ Range(Labels(tbl)) \subseteq Range(age_order)
                  /\ \A j, k \in DOMAIN tbl.rows :
                        tbl.rows[j].label = tbl.rows[k].label => j = k
            /\ ColumnSum(view.age_dist.rows, "Contested") = Len(OtherRows)
            /\ \A k \in DOMAIN view.age_dist.rows :
                  /\ view.age_dist.rows[k].cell["Contested"] > 0
                  /\ view.age_dist.rows[k].cell["% of Total Contested"]
                        = Percent(view.age_dist.rows[k].cell["Contested"], Len(OtherRows))

(* C20 witness: a candidate without age among three selected, each in one *)
(* bucket of either split                                                 *)
C20_Witness ==
    /\ view.page = "Other"
    /\ Len(OtherRows) = 3
    /\ \E i \in DOMAIN OtherRows : OtherRows[i].Age = NaNAge
    /\ \E i \in DOMAIN OtherRows : OtherRows[i].Age # NaNAge /\ OtherRows[i].Age < 40
    /\ ColumnSum(view.age_dist.rows, "Contested") = 3
    /\ ColumnSum(view.age_summary.rows, "Contested") = 3
    /\ Len(view.age_dist.rows) >= 2


(* Every colour the map can hold *)
Colours ==
    Range([q \in DOMAIN party_specific_colors |-> party_specific_colors[q]])
    \cup UNION {Range(front_palettes[f]) : f \in DOMAIN front_palettes}
    \cup {"#CCCCCC"}

(* The parties of the first n winner rows the loop iterates over *)
PartiesSeen(n) == {view.df_winners[i].Party : i \in 1..n}

(* While the loop runs the keys are the parties of the rows taken so far, *)
(* each with one colour; when it has ended they are the parties with a    *)
(* winner row in the selected local body                                  *)
ColourKeysAreSeenParties ==
    view.page = "LocalBodyLoop" =>
        /\ DOMAIN view.final_party_color_map = PartiesSeen(view.rows_done)
        /\ \A q \in DOMAIN view.final_party_color_map :
              view.final_party_color_map[q] \in Colours
        /\ view.rows_done = Len(view.df_winners) =>
              DOMAIN view.final_party_color_map
                 = {LocalBodyWinners[i].Party : i \in DOMAIN LocalBodyWinners}

(* An iteration of the loop leaves every party already in the map with    *)
(* the colour it has                                                      *)
ColourKeptByLaterRow ==
    (/\ view.page = "LocalBodyLoop"
     /\ view'.page = "LocalBodyLoop"
     /\ view'.rows_done = view.rows_done + 1) =>
        \A q \in DOMAIN view.final_party_color_map :
           /\ q \in DOMAIN view'.final_party_color_map
           /\ view'.final_party_color_map[q] = view.final_party_color_map[q]

(* C21: while the colour map is built row by row, a party gets its colour *)
(* at the first row where it occurs and no later row changes it; when the *)
(* loop has ended the keys of the map are exactly the parties with a      *)
(* winner row in the selected local body, each with one colour.           *)
C21_ColourFixedAtFirstRow ==
    /\ []ColourKeysAreSeenParties
    /\ [][ColourKeptByLaterRow]_vars

(* C21 witness: the loop has ended after meeting a party without override *)
(* colour a second time, another party's row in between                   *)
C21_Witness ==
    /\ view.page = "LocalBodyLoop"
    /\ view.rows_done = Len(view.df_winners)
    /\ \E i, j, k \in DOMAIN view.df_winners :
          /\ i < j /\ j < k
          /\ view.df_winners[i].Party = view.df_winners[k].Party
          /\ view.df_winners[i].Party \notin DOMAIN party_specific_colors
          /\ view.df_winners[j].Party # view.df_winners[i].Party
          /\ view.df_winners[j].Front = view.df_winners[i].Front
    /\ Cardinality(DOMAIN view.final_party_color_map) >= 3

=============================================================================
